---- MODULE Spec2Model ----
(***************************************************************************)
(* Esp32Sing (main/boards/common/esp32_sing.cc, esp32_sing.h): the         *)
(* streaming pipeline of the sing player.  One controller thread calls     *)
(* StartStreaming / StopStreaming; every session has a download task       *)
(* (DownloadAudioStreamFromUrl) and a play task (PlayAudioStream) that     *)
(* share the chunk queue audio_buffer_, its byte count buffer_size_, the   *)
(* mutex buffer_mutex_ with the condition variable buffer_cv_, and the two *)
(* atomic flags is_downloading_ and is_playing_.                           *)
(*                                                                         *)
(* Every action is one atomic step of one thread: a store or load of an    *)
(* atomic flag, a critical section of buffer_mutex_, or a call of an       *)
(* external collaborator (transport, decoder, device) whose result is      *)
(* drawn from a small set.                                                 *)
(***************************************************************************)
EXTENDS Integers, Sequences, FiniteSets, TLC

\* ------------------------------------------------------------------
\* Bounds of the model
\* ------------------------------------------------------------------
MaxSessions == 2        \* start requests of a run that restarts
MaxChunks == 5          \* chunks the download tasks of a run allocate
RestartChunks == 3      \* the same, in a run that restarts
FillChunks == 34        \* the same, in a run that fills the queue
LiveChunks == 5         \* the same, in a run scheduled fairly
RelaunchChunks == 1     \* the same, in a run that restarts, scheduled fairly
RefillChunks == 68      \* the same, in a run that fills the queue twice

\* ------------------------------------------------------------------
\* Program constants
\* ------------------------------------------------------------------
MAX_BUFFER_SIZE == 128 * 1024
MIN_BUFFER_SIZE == 16 * 1024
chunk_size == 4096
mp3_input_size == 8192
max_waits == 100

Sessions == 1 .. MaxSessions

\* Threads that can own buffer_mutex_ or wait on buffer_cv_.
NoOwner == <<"none", 0>>
Ctl == <<"ctl", 0>>
DlTask(s) == <<"dl", s>>
PlayTask(s) == <<"play", s>>

NoChunk == [id |-> 0, size |-> 0, head |-> "raw"]

VARIABLES
    is_downloading_,     \* std::atomic<bool>
    is_playing_,         \* std::atomic<bool>
    audio_buffer_,       \* std::queue<SingAudioChunk>: sequence of chunks
    buffer_size_,        \* size_t; a value below 0 stands for one that wrapped around
    buffer_mutex_,       \* owner of the mutex, NoOwner when unlocked
    buffer_cv_,          \* threads blocked in buffer_cv_.wait and not yet notified
    download_thread_,    \* 0: not joinable; s: joinable handle of session s's task
    play_thread_,        \* same for the play task
    wav_mode_,
    wav_header_parsed_,
    wav_channels_,
    wav_sample_rate_,
    wav_bits_per_sample_,
    call,                \* the call under test when one function is run on its own
    current_song_name_,  \* std::string, "" when empty
    song_name_displayed_,
    music_info,          \* the text last given to display->SetMusicInfo
    ctl,                 \* the controller thread: [pc, waits]
    sessions,            \* number of sessions started so far
    dl,                  \* dl[s]: the download task of session s
    play,                \* play[s]: the play task of session s
    env,                 \* what the environment may do in this run (never changes)
    heap,                \* [next: chunks allocated so far, freed: set of released ids]
    pushed,              \* history: ids in the order they were pushed
    popped,              \* history: ids in the order they were popped
    cleared              \* history: ids released by ClearAudioBuffer

shared == <<is_downloading_, is_playing_>>
queue == <<audio_buffer_, buffer_size_>>
sync == <<buffer_mutex_, buffer_cv_>>
threads == <<download_thread_, play_thread_>>
wav == <<wav_mode_, wav_header_parsed_, wav_channels_, wav_sample_rate_,
         wav_bits_per_sample_>>
hist == <<pushed, popped, cleared>>
display == <<current_song_name_, song_name_displayed_, music_info>>
vars == <<is_downloading_, is_playing_, audio_buffer_, buffer_size_, buffer_mutex_,
          buffer_cv_, download_thread_, play_thread_, wav_mode_, wav_header_parsed_,
          wav_channels_, wav_sample_rate_, wav_bits_per_sample_, call,
          current_song_name_, song_name_displayed_, music_info,
          ctl, sessions, dl, play, env, heap, pushed, popped, cleared>>

\* ------------------------------------------------------------------
\* Inputs from the environment
\* ------------------------------------------------------------------
\* http->Open succeeds or fails.
OpenResults == {TRUE, FALSE}
StatusCodes == {200, 206, 404, 500}
\* http->Read: a negative value, 0, or 1..chunk_size bytes.  Only the read that
\* brings the first bytes is let to come short.
FirstReadResults == {-1, 0, chunk_size - 1, chunk_size}
ReadResults == {-1, 0, chunk_size}
\* What the first bytes of the body carry: a RIFF/WAVE header with its data
\* sub-chunk (44 bytes), or anything else.
Heads == {"raw", "riff"}
\* A chunk may also begin with a metadata tag, one that ends inside the first
\* read (257 bytes) or one longer than the decode window (8192 bytes).
Id3Heads == {"id3", "id3_long"}
\* Application::GetDeviceState(), as the play task sees it when it asks.
DeviceStates == {"idle", "listening", "speaking", "connecting"}
\* What the decoder does with the window: MP3FindSyncWord finds no sync word, or
\* MP3Decode fails, or it consumes a frame, taken to be half a read long.
DecodeResults == {"nosync", "error", "frame"}
FrameBytes == chunk_size \div 2
\* The container state a session starts from, and what the fmt sub-chunk of a
\* WAV header may declare: the canonical stereo header, or another one.
WavDefaults == [channels |-> 1, sample_rate |-> 16000, bits_per_sample |-> 16]
HeaderFormats ==
    {[channels |-> 2, sample_rate |-> 16000, bits_per_sample |-> 16],
     [channels |-> 1, sample_rate |-> 44100, bits_per_sample |-> 8]}

\* The song names Download is called with.
SongNames == {"song"}

\* Locking a std::mutex the thread already owns is undefined: the thread blocks
\* for ever, or the lock is granted once more.
RelockOutcomes == {"deadlock", "reenter"}

\* A run of the system is bounded by what its environment does.
\*   AnySession: one session that the controller may stop, with every answer of
\*               the transport, the allocator, the device and the decoder.
AnySession ==
    [starts |-> 1, stop |-> TRUE, chunks |-> MaxChunks, opens |-> OpenResults,
     statuses |-> StatusCodes, first |-> FirstReadResults, results |-> ReadResults,
     heads |-> Heads, mallocs |-> BOOLEAN, devices |-> DeviceStates,
     decodes |-> DecodeResults]
\*   Restart: sessions started one over the other while the tasks of the earlier
\*            ones still run; the transport delivers.
Restart ==
    [starts |-> MaxSessions, stop |-> FALSE, chunks |-> RestartChunks,
     opens |-> {TRUE}, statuses |-> {200}, first |-> {0, chunk_size - 1},
     results |-> {0, chunk_size}, heads |-> {"raw"}, mallocs |-> {TRUE},
     devices |-> {"idle"}, decodes |-> {"frame"}]
\*   Fill: one session whose body is long enough to fill the queue while the
\*         device keeps the play task from playing.
Fill ==
    [starts |-> 1, stop |-> FALSE, chunks |-> FillChunks, opens |-> {TRUE},
     statuses |-> {200}, first |-> {chunk_size}, results |-> {0, chunk_size},
     heads |-> {"raw"}, mallocs |-> {TRUE}, devices |-> {"idle", "speaking"},
     decodes |-> {"frame"}]

\* A session that fills the queue while the device is speaking, and a second
\* one started over it.
Overrun ==
    [starts |-> MaxSessions, stop |-> FALSE, chunks |-> FillChunks, opens |-> {TRUE},
     statuses |-> {200}, first |-> {chunk_size}, results |-> {chunk_size},
     heads |-> {"raw"}, mallocs |-> {TRUE}, devices |-> {"speaking"},
     decodes |-> {"frame"}]

\* A session that fills the queue to its largest size while the device is
\* speaking, and a second one started over it that fills the queue again.
Refilled ==
    [starts |-> MaxSessions, stop |-> FALSE, chunks |-> RefillChunks, opens |-> {TRUE},
     statuses |-> {200}, first |-> {chunk_size - 1}, results |-> {chunk_size - 1},
     heads |-> {"raw"}, mallocs |-> {TRUE}, devices |-> {"speaking"},
     decodes |-> {"frame"}]

\* One session whose body may begin with a metadata tag, decoded in any way.
Tagged ==
    [starts |-> 1, stop |-> FALSE, chunks |-> LiveChunks, opens |-> {TRUE},
     statuses |-> {200}, first |-> {chunk_size}, results |-> {0, chunk_size},
     heads |-> {"raw"} \cup Id3Heads, mallocs |-> {TRUE}, devices |-> {"idle"},
     decodes |-> DecodeResults]

\* One session whose connection opens and answers 200 or 404; on 200 the body
\* comes as non-empty reads and then a read of 0, and the device stays idle.
Scenario ==
    [starts |-> 1, stop |-> FALSE, chunks |-> LiveChunks, opens |-> {TRUE, FALSE},
     statuses |-> {200, 404}, first |-> {chunk_size - 1, chunk_size},
     results |-> {0, chunk_size}, heads |-> Heads, mallocs |-> {TRUE},
     devices |-> {"idle"}, decodes |-> {"frame"}]

\* Sessions started one over the other, the earlier one answered with 200 or
\* 404, possibly with a read that never returns.
Relaunch ==
    [starts |-> MaxSessions, stop |-> FALSE, chunks |-> RelaunchChunks,
     opens |-> {TRUE}, statuses |-> {200, 404}, first |-> {chunk_size},
     results |-> {0, chunk_size}, heads |-> Heads, mallocs |-> {TRUE},
     devices |-> {"idle"}, decodes |-> {"frame"}]

\* ------------------------------------------------------------------
\* Helpers
\* ------------------------------------------------------------------
RECURSIVE SumSizes(_)
SumSizes(q) == IF q = <<>> THEN 0 ELSE Head(q).size + SumSizes(Tail(q))

Ids(q) == [i \in 1 .. Len(q) |-> q[i].id]

DlIdle == [pc |-> "none", opens |-> 0, got_first_byte |-> FALSE,
           first_byte_timeout |-> FALSE, chunk |-> NoChunk,
           cause |-> "none", sounds |-> 0, listens |-> 0, cancelled |-> FALSE]

PlayIdle == [pc |-> "none", bytes_left |-> 0, read_ptr |-> 0, window |-> <<>>, id3_processed |-> FALSE,
             chunk |-> NoChunk, st |-> "none", toggled |-> FALSE, emitted |-> 0,
             labels |-> 0]

\* No function is being run on its own.
NoCall == [op |-> "none"]

\* The state after construction, in environment e.
Constructed(e) ==
    /\ is_downloading_ = FALSE
    /\ is_playing_ = FALSE
    /\ audio_buffer_ = <<>>
    /\ buffer_size_ = 0
    /\ buffer_mutex_ = NoOwner
    /\ buffer_cv_ = {}
    /\ download_thread_ = 0
    /\ play_thread_ = 0
    /\ wav_mode_ = FALSE
    /\ wav_header_parsed_ = FALSE
    /\ wav_channels_ = WavDefaults.channels
    /\ wav_sample_rate_ = WavDefaults.sample_rate
    /\ wav_bits_per_sample_ = WavDefaults.bits_per_sample
    /\ current_song_name_ = ""
    /\ song_name_displayed_ = FALSE
    /\ music_info = ""
    /\ ctl = [pc |-> "idle", waits |-> 0]
    /\ sessions = 0
    /\ dl = [s \in Sessions |-> DlIdle]
    /\ play = [s \in Sessions |-> PlayIdle]
    /\ env = e
    /\ heap = [next |-> 0, freed |-> {}]
    /\ pushed = <<>>
    /\ popped = <<>>
    /\ cleared = {}

\* ------------------------------------------------------------------
\* The queue's lock and condition variable
\* ------------------------------------------------------------------
Unlocked == buffer_mutex_ = NoOwner

\* buffer_cv_.notify_all(): every blocked waiter becomes runnable.
NotifyAll == buffer_cv_' = {}

\* buffer_cv_.notify_one(): one blocked waiter, if there is one, becomes runnable.
NotifyOne ==
    IF buffer_cv_ = {} THEN buffer_cv_' = buffer_cv_
    ELSE \E w \in buffer_cv_ : buffer_cv_' = buffer_cv_ \ {w}

\* { std::lock_guard<std::mutex> lock(buffer_mutex_); buffer_cv_.notify_all(); }
LockedNotifyAll ==
    /\ Unlocked
    /\ NotifyAll
    /\ UNCHANGED buffer_mutex_

\* A clear that releases the chunks and leaves the byte count as it was.
ClearAudioBuffer_NoReset ==
    /\ audio_buffer_' = <<>>
    /\ buffer_size_' = buffer_size_
    /\ heap' = [heap EXCEPT !.freed = @ \cup {audio_buffer_[i].id : i \in 1 .. Len(audio_buffer_)}]
    /\ cleared' = cleared \cup {audio_buffer_[i].id : i \in 1 .. Len(audio_buffer_)}

\* The body of ClearAudioBuffer, run with the lock held: every resident chunk is
\* released and the byte count is reset.
ClearAudioBuffer ==
    /\ audio_buffer_' = <<>>
    /\ buffer_size_' = 0
    /\ heap' = [heap EXCEPT !.freed = @ \cup {audio_buffer_[i].id : i \in 1 .. Len(audio_buffer_)}]
    /\ cleared' = cleared \cup {audio_buffer_[i].id : i \in 1 .. Len(audio_buffer_)}

\* ------------------------------------------------------------------
\* The controller thread
\* ------------------------------------------------------------------
CtlAt(pc) == ctl.pc = pc
CtlGoto(pc) == ctl' = [ctl EXCEPT !.pc = pc]

\* while (!finished && waits < max_waits) { vTaskDelay; waits++;
\*     if (!thread.joinable()) { finished = true; break; } }
\* joinable() is changed by join and detach alone, which only this thread calls,
\* so it has one value in all rounds of the loop: the loop ends after its first
\* round when that is false and at max_waits when it is true.  The result is
\* waits as the loop leaves it.
PollWaits(waits, joinable) ==
    IF waits >= max_waits THEN waits
    ELSE IF joinable THEN max_waits
    ELSE waits + 1

\* History: the download tasks that are blocked in the wait of their push at the
\* moment the controller clears is_downloading_ are marked cancelled.
CancelPushes ==
    dl' = [s \in Sessions |->
             IF dl[s].pc = "push_wait" /\ DlTask(s) \in buffer_cv_
             THEN [dl[s] EXCEPT !.cancelled = TRUE]
             ELSE dl[s]]

\* Download(song_name, artist_name): current_song_name_ = song_name; ...
\* StartStreaming(music_url), music_url not empty: is_downloading_ = false
Start_Call ==
    /\ CtlAt("idle")
    /\ sessions < env.starts
    /\ ctl' = [pc |-> "start_clear_playing", waits |-> 0]
    /\ \E song_name \in SongNames : current_song_name_' = song_name
    /\ is_downloading_' = FALSE
    /\ CancelPushes
    /\ UNCHANGED <<is_playing_, queue, sync, threads, wav, sessions, play,
                   env, call, song_name_displayed_, music_info, heap, hist>>

\* is_playing_ = false
Start_ClearPlaying ==
    /\ CtlAt("start_clear_playing")
    /\ is_playing_' = FALSE
    /\ CtlGoto("start_notify")
    /\ UNCHANGED <<is_downloading_, queue, sync, threads, wav, sessions, dl, play,
                   env, call, display, heap, hist>>

Start_Notify ==
    /\ CtlAt("start_notify")
    /\ LockedNotifyAll
    /\ CtlGoto("start_abandon_download")
    /\ UNCHANGED <<shared, queue, threads, wav, sessions, dl, play, env, call, display,
                   heap, hist>>

\* The bounded wait for the previous download task, then detach.
Start_AbandonDownload ==
    /\ CtlAt("start_abandon_download")
    /\ IF download_thread_ # 0
       THEN /\ ctl' = [ctl EXCEPT !.pc = "start_stop_play",
                                  !.waits = PollWaits(0, download_thread_ # 0)]
            /\ download_thread_' = 0
       ELSE /\ CtlGoto("start_stop_play")
            /\ UNCHANGED download_thread_
    /\ UNCHANGED <<shared, queue, sync, play_thread_, wav, sessions, dl, play,
                   env, call, display, heap, hist>>

Start_StopPlay ==
    /\ CtlAt("start_stop_play")
    /\ IF play_thread_ # 0
       THEN /\ is_playing_' = FALSE
            /\ CtlGoto("start_notify_play")
       ELSE /\ UNCHANGED is_playing_
            /\ CtlGoto("start_clear")
    /\ UNCHANGED <<is_downloading_, queue, sync, threads, wav, sessions, dl, play,
                   env, call, display, heap, hist>>

Start_NotifyPlay ==
    /\ CtlAt("start_notify_play")
    /\ LockedNotifyAll
    /\ CtlGoto("start_abandon_play")
    /\ UNCHANGED <<shared, queue, threads, wav, sessions, dl, play, env, call, display,
                   heap, hist>>

\* The bounded wait for the previous play task (its loop never looks at
\* joinable()), then detach.
Start_AbandonPlay ==
    /\ CtlAt("start_abandon_play")
    /\ ctl' = [ctl EXCEPT !.pc = "start_clear", !.waits = PollWaits(0, TRUE)]
    /\ play_thread_' = 0
    /\ UNCHANGED <<shared, queue, sync, download_thread_, wav, sessions, dl, play,
                   env, call, display, heap, hist>>

Start_Clear ==
    /\ CtlAt("start_clear")
    /\ Unlocked
    /\ ClearAudioBuffer
    /\ CtlGoto("start_reset")
    /\ UNCHANGED <<shared, sync, threads, wav, sessions, dl, play, env, call, display,
                   pushed, popped>>

\* wav_mode_ = false; wav_header_parsed_ = false; wav_channels_ = 1;
\* wav_sample_rate_ = 16000; wav_bits_per_sample_ = 16; ...; current_stream_url_ = music_url
Start_Reset ==
    /\ CtlAt("start_reset")
    /\ wav_mode_' = FALSE
    /\ wav_header_parsed_' = FALSE
    /\ wav_channels_' = WavDefaults.channels
    /\ wav_sample_rate_' = WavDefaults.sample_rate
    /\ wav_bits_per_sample_' = WavDefaults.bits_per_sample
    /\ CtlGoto("start_spawn_download")
    /\ UNCHANGED <<shared, queue, sync, threads, sessions, dl, play, env, call, display,
                   heap, hist>>

\* is_downloading_ = true; download_thread_ = std::thread(DownloadAudioStreamFromUrl)
Start_SpawnDownload ==
    /\ CtlAt("start_spawn_download")
    /\ is_downloading_' = TRUE
    /\ sessions' = sessions + 1
    /\ dl' = [dl EXCEPT ![sessions + 1].pc = "open"]
    /\ download_thread_' = sessions + 1
    /\ CtlGoto("start_spawn_play")
    /\ UNCHANGED <<is_playing_, queue, sync, play_thread_, wav, play, env, call, display,
                   heap, hist>>

\* is_playing_ = true; play_thread_ = std::thread(PlayAudioStream); return true
Start_SpawnPlay ==
    /\ CtlAt("start_spawn_play")
    /\ is_playing_' = TRUE
    /\ play' = [play EXCEPT ![sessions] = [@ EXCEPT !.pc = "prime"]]
    /\ play_thread_' = sessions
    /\ ctl' = [pc |-> "idle", waits |-> 0]
    /\ UNCHANGED <<is_downloading_, queue, sync, download_thread_, wav, sessions, dl,
                   env, call, display, heap, hist>>

StartStreaming ==
    \/ Start_Call
    \/ Start_ClearPlaying
    \/ Start_Notify
    \/ Start_AbandonDownload
    \/ Start_StopPlay
    \/ Start_NotifyPlay
    \/ Start_AbandonPlay
    \/ Start_Clear
    \/ Start_Reset
    \/ Start_SpawnDownload
    \/ Start_SpawnPlay

\* StartStreamingById(song_id), song_id not empty: is_downloading_ = false
ById_Call ==
    /\ CtlAt("idle")
    /\ sessions < env.starts
    /\ ctl' = [pc |-> "byid_clear_playing", waits |-> 0]
    /\ is_downloading_' = FALSE
    /\ CancelPushes
    /\ UNCHANGED <<is_playing_, queue, sync, threads, wav, sessions, play,
                   env, call, display, heap, hist>>

\* is_playing_ = false
ById_ClearPlaying ==
    /\ CtlAt("byid_clear_playing")
    /\ is_playing_' = FALSE
    /\ CtlGoto("byid_notify")
    /\ UNCHANGED <<is_downloading_, queue, sync, threads, wav, sessions, dl, play,
                   env, call, display, heap, hist>>

ById_Notify ==
    /\ CtlAt("byid_notify")
    /\ LockedNotifyAll
    /\ CtlGoto("byid_join_download")
    /\ UNCHANGED <<shared, queue, threads, wav, sessions, dl, play, env, call, display,
                   heap, hist>>

\* if (download_thread_.joinable()) download_thread_.join();
ById_JoinDownload ==
    /\ CtlAt("byid_join_download")
    /\ IF download_thread_ # 0
       THEN /\ dl[download_thread_].pc = "done"
            /\ download_thread_' = 0
       ELSE UNCHANGED download_thread_
    /\ CtlGoto("byid_stop_play")
    /\ UNCHANGED <<shared, queue, sync, play_thread_, wav, sessions, dl, play,
                   env, call, display, heap, hist>>

ById_StopPlay ==
    /\ CtlAt("byid_stop_play")
    /\ IF play_thread_ # 0
       THEN /\ is_playing_' = FALSE
            /\ CtlGoto("byid_notify_play")
       ELSE /\ UNCHANGED is_playing_
            /\ CtlGoto("byid_clear")
    /\ UNCHANGED <<is_downloading_, queue, sync, threads, wav, sessions, dl, play,
                   env, call, display, heap, hist>>

ById_NotifyPlay ==
    /\ CtlAt("byid_notify_play")
    /\ LockedNotifyAll
    /\ CtlGoto("byid_abandon_play")
    /\ UNCHANGED <<shared, queue, threads, wav, sessions, dl, play, env, call, display,
                   heap, hist>>

\* The bounded wait for the previous play task (its loop never looks at
\* joinable()), then detach.
ById_AbandonPlay ==
    /\ CtlAt("byid_abandon_play")
    /\ ctl' = [ctl EXCEPT !.pc = "byid_clear", !.waits = PollWaits(0, TRUE)]
    /\ play_thread_' = 0
    /\ UNCHANGED <<shared, queue, sync, download_thread_, wav, sessions, dl, play,
                   env, call, display, heap, hist>>

\* ClearAudioBuffer(); the container state is left as it is.
ById_Clear ==
    /\ CtlAt("byid_clear")
    /\ Unlocked
    /\ ClearAudioBuffer
    /\ CtlGoto("byid_spawn_download")
    /\ UNCHANGED <<shared, sync, threads, wav, sessions, dl, play, env, call, display,
                   pushed, popped>>

\* is_downloading_ = true; download_thread_ = std::thread(DownloadAudioStreamById),
\* which builds the URL from the id and calls DownloadAudioStreamFromUrl.
ById_SpawnDownload ==
    /\ CtlAt("byid_spawn_download")
    /\ is_downloading_' = TRUE
    /\ sessions' = sessions + 1
    /\ dl' = [dl EXCEPT ![sessions + 1].pc = "open"]
    /\ download_thread_' = sessions + 1
    /\ CtlGoto("byid_spawn_play")
    /\ UNCHANGED <<is_playing_, queue, sync, play_thread_, wav, play, env, call, display,
                   heap, hist>>

\* is_playing_ = true; play_thread_ = std::thread(PlayAudioStream); return true
ById_SpawnPlay ==
    /\ CtlAt("byid_spawn_play")
    /\ is_playing_' = TRUE
    /\ play' = [play EXCEPT ![sessions] = [@ EXCEPT !.pc = "prime"]]
    /\ play_thread_' = sessions
    /\ ctl' = [pc |-> "idle", waits |-> 0]
    /\ UNCHANGED <<is_downloading_, queue, sync, download_thread_, wav, sessions, dl,
                   env, call, display, heap, hist>>

\* The steps of StartStreamingById after its first.
ByIdSteps ==
    \/ ById_ClearPlaying
    \/ ById_Notify
    \/ ById_JoinDownload
    \/ ById_StopPlay
    \/ ById_NotifyPlay
    \/ ById_AbandonPlay
    \/ ById_Clear
    \/ ById_SpawnDownload
    \/ ById_SpawnPlay

StartStreamingById ==
    \/ ById_Call
    \/ ByIdSteps

\* StopStreaming(): ResetSampleRate(); if (!is_playing_ && ...) reads is_playing_
Stop_Call ==
    /\ CtlAt("idle")
    /\ env.stop
    /\ CtlGoto(IF is_playing_ THEN "stop_clear_downloading" ELSE "stop_check_downloading")
    /\ UNCHANGED <<shared, queue, sync, threads, wav, sessions, dl, play, env, call, display,
                   heap, hist>>

\* ... && !is_downloading_) return true;
Stop_CheckDownloading ==
    /\ CtlAt("stop_check_downloading")
    /\ CtlGoto(IF is_downloading_ THEN "stop_clear_downloading" ELSE "stop_return")
    /\ UNCHANGED <<shared, queue, sync, threads, wav, sessions, dl, play, env, call, display,
                   heap, hist>>

Stop_ClearDownloading ==
    /\ CtlAt("stop_clear_downloading")
    /\ is_downloading_' = FALSE
    /\ CtlGoto("stop_clear_playing")
    /\ CancelPushes
    /\ UNCHANGED <<is_playing_, queue, sync, threads, wav, sessions, play,
                   env, call, display, heap, hist>>

Stop_ClearPlaying ==
    /\ CtlAt("stop_clear_playing")
    /\ is_playing_' = FALSE
    /\ CtlGoto("stop_notify")
    /\ UNCHANGED <<is_downloading_, queue, sync, threads, wav, sessions, dl, play,
                   env, call, display, heap, hist>>

Stop_Notify ==
    /\ CtlAt("stop_notify")
    /\ LockedNotifyAll
    /\ CtlGoto("stop_join_download")
    /\ UNCHANGED <<shared, queue, threads, wav, sessions, dl, play, env, call, display,
                   heap, hist>>

\* if (download_thread_.joinable()) download_thread_.join();
Stop_JoinDownload ==
    /\ CtlAt("stop_join_download")
    /\ IF download_thread_ # 0
       THEN /\ dl[download_thread_].pc = "done"
            /\ download_thread_' = 0
       ELSE UNCHANGED download_thread_
    /\ CtlGoto("stop_stop_play")
    /\ UNCHANGED <<shared, queue, sync, play_thread_, wav, sessions, dl, play,
                   env, call, display, heap, hist>>

Stop_StopPlay ==
    /\ CtlAt("stop_stop_play")
    /\ IF play_thread_ # 0
       THEN /\ is_playing_' = FALSE
            /\ CtlGoto("stop_notify_play")
       ELSE /\ UNCHANGED is_playing_
            /\ CtlGoto("stop_return")
    /\ UNCHANGED <<is_downloading_, queue, sync, threads, wav, sessions, dl, play,
                   env, call, display, heap, hist>>

Stop_NotifyPlay ==
    /\ CtlAt("stop_notify_play")
    /\ LockedNotifyAll
    /\ CtlGoto("stop_join_play")
    /\ UNCHANGED <<shared, queue, threads, wav, sessions, dl, play, env, call, display,
                   heap, hist>>

\* The polling loop, then if (play_thread_.joinable()) play_thread_.join();
Stop_JoinPlay ==
    /\ CtlAt("stop_join_play")
    /\ play[play_thread_].pc = "done"
    /\ play_thread_' = 0
    /\ ctl' = [ctl EXCEPT !.pc = "stop_return", !.waits = PollWaits(0, play_thread_ # 0)]
    /\ UNCHANGED <<shared, queue, sync, download_thread_, wav, sessions, dl, play,
                   env, call, display, heap, hist>>

\* return true
Stop_Return ==
    /\ CtlAt("stop_return")
    /\ ctl' = [pc |-> "idle", waits |-> 0]
    /\ UNCHANGED <<shared, queue, sync, threads, wav, sessions, dl, play, env, call, display,
                   heap, hist>>

StopStreaming ==
    \/ Stop_Call
    \/ Stop_CheckDownloading
    \/ Stop_ClearDownloading
    \/ Stop_ClearPlaying
    \/ Stop_Notify
    \/ Stop_JoinDownload
    \/ Stop_StopPlay
    \/ Stop_NotifyPlay
    \/ Stop_JoinPlay
    \/ Stop_Return

\* ------------------------------------------------------------------
\* The download task: DownloadAudioStreamFromUrl
\* ------------------------------------------------------------------
DlAt(s, pc) == dl[s].pc = pc

\* bool opened = http->Open(...): the first attempt.  (For the POST endpoint the
\* form field is then written to the transport.)
Dl_Open(s) ==
    /\ DlAt(s, "open")
    /\ \E opened \in env.opens :
         dl' = [dl EXCEPT ![s] = [@ EXCEPT !.opens = @ + 1,
                                           !.pc = IF opened THEN "status" ELSE "retry"]]
    /\ UNCHANGED <<shared, queue, sync, threads, wav, ctl, sessions, play,
                   env, call, display, heap, hist>>

\* A failed retry that is followed by yet another attempt.
Dl_Retry_Again(s) ==
    /\ DlAt(s, "retry")
    /\ \E opened \in env.opens :
         dl' = [dl EXCEPT ![s] = [@ EXCEPT !.opens = @ + 1,
                                           !.pc = IF opened THEN "status" ELSE "retry"]]
    /\ UNCHANGED <<shared, queue, sync, threads, wav, ctl, sessions, play,
                   env, call, display, heap, hist>>

\* if (!opened) { vTaskDelay(500); opened = http->Open(...); }
\* if (!opened) { is_downloading_ = false; return; }
Dl_Retry(s) ==
    /\ DlAt(s, "retry")
    /\ \E opened \in env.opens :
         IF opened
         THEN /\ dl' = [dl EXCEPT ![s] = [@ EXCEPT !.opens = @ + 1, !.pc = "status"]]
              /\ UNCHANGED is_downloading_
         ELSE /\ dl' = [dl EXCEPT ![s] = [@ EXCEPT !.opens = @ + 1, !.pc = "done",
                                                   !.cause = "open_failed"]]
              /\ is_downloading_' = FALSE
    /\ UNCHANGED <<is_playing_, queue, sync, threads, wav, ctl, sessions, play,
                   env, call, display, heap, hist>>

\* int status_code = http->GetStatusCode(); and the branch on it.  On either error
\* branch: http->Close(); vTaskDelay(100); ResetSampleRate();
Dl_Status(s) ==
    /\ DlAt(s, "status")
    /\ \E status_code \in env.statuses :
         dl' = [dl EXCEPT ![s] =
                  IF status_code = 404
                  THEN [@ EXCEPT !.pc = "nf_clear_downloading", !.cause = "404"]
                  ELSE IF status_code # 200 /\ status_code # 206
                  THEN [@ EXCEPT !.pc = "he_clear_downloading", !.cause = "http"]
                  ELSE [@ EXCEPT !.pc = "loop"]]
    /\ UNCHANGED <<shared, queue, sync, threads, wav, ctl, sessions, play,
                   env, call, display, heap, hist>>

\* is_downloading_ = false;
Dl_ClearDownloading(s, at, to) ==
    /\ DlAt(s, at)
    /\ is_downloading_' = FALSE
    /\ dl' = [dl EXCEPT ![s].pc = to]
    /\ UNCHANGED <<is_playing_, queue, sync, threads, wav, ctl, sessions, play,
                   env, call, display, heap, hist>>

\* is_playing_ = false;
Dl_ClearPlaying(s, at, to) ==
    /\ DlAt(s, at)
    /\ is_playing_' = FALSE
    /\ dl' = [dl EXCEPT ![s].pc = to]
    /\ UNCHANGED <<is_downloading_, queue, sync, threads, wav, ctl, sessions, play,
                   env, call, display, heap, hist>>

\* { std::lock_guard<std::mutex> lock(buffer_mutex_); buffer_cv_.notify_all();
Dl_LockNotify(s, at, to) ==
    /\ DlAt(s, at)
    /\ Unlocked
    /\ buffer_mutex_' = DlTask(s)
    /\ NotifyAll
    /\ dl' = [dl EXCEPT ![s].pc = to]
    /\ UNCHANGED <<shared, queue, threads, wav, ctl, sessions, play, env, call, display,
                   heap, hist>>

\*   ClearAudioBuffer(); }  called with buffer_mutex_ held: ClearAudioBuffer locks
\* the same mutex again.
Dl_RelockClear(s, at, to) ==
    /\ DlAt(s, at)
    /\ buffer_mutex_ = DlTask(s)
    /\ \E outcome \in RelockOutcomes :
         IF outcome = "deadlock"
         THEN /\ dl' = [dl EXCEPT ![s].pc = "deadlocked"]
              /\ UNCHANGED <<queue, heap, cleared, buffer_mutex_>>
         ELSE /\ ClearAudioBuffer
              /\ buffer_mutex_' = NoOwner
              /\ dl' = [dl EXCEPT ![s].pc = to]
    /\ UNCHANGED <<shared, buffer_cv_, threads, wav, ctl, sessions, play, env, call, display,
                   pushed, popped>>

\* app.PlaySound(Lang::Sounds::P3_VIBRATION);
Dl_PlaySound(s, at, to) ==
    /\ DlAt(s, at)
    /\ dl' = [dl EXCEPT ![s] = [@ EXCEPT !.sounds = @ + 1, !.pc = to]]
    /\ UNCHANGED <<shared, queue, sync, threads, wav, ctl, sessions, play,
                   env, call, display, heap, hist>>

\* app.StartListening(); return;
Dl_StartListening(s, at, to) ==
    /\ DlAt(s, at)
    /\ dl' = [dl EXCEPT ![s] = [@ EXCEPT !.listens = @ + 1, !.pc = to]]
    /\ UNCHANGED <<shared, queue, sync, threads, wav, ctl, sessions, play,
                   env, call, display, heap, hist>>

\* The status-404 branch.  (is_lyric_running_ is never set, so the lyric thread
\* is never joined.)
Dl_NotFound(s) ==
    \/ Dl_ClearDownloading(s, "nf_clear_downloading", "nf_clear_playing")
    \/ Dl_ClearPlaying(s, "nf_clear_playing", "nf_notify")
    \/ Dl_LockNotify(s, "nf_notify", "nf_clear")
    \/ Dl_RelockClear(s, "nf_clear", "nf_sound")
    \/ Dl_PlaySound(s, "nf_sound", "nf_listen")
    \/ Dl_StartListening(s, "nf_listen", "done")

\* A status-error branch that also plays the tone and asks for listening.
Dl_HttpError_Loud(s) ==
    \/ Dl_ClearDownloading(s, "he_clear_downloading", "he_clear_playing")
    \/ Dl_ClearPlaying(s, "he_clear_playing", "he_notify")
    \/ Dl_LockNotify(s, "he_notify", "he_clear")
    \/ Dl_RelockClear(s, "he_clear", "nf_sound")

\* The branch for any other status than 200 and 206.
Dl_HttpError(s) ==
    \/ Dl_ClearDownloading(s, "he_clear_downloading", "he_clear_playing")
    \/ Dl_ClearPlaying(s, "he_clear_playing", "he_notify")
    \/ Dl_LockNotify(s, "he_notify", "he_clear")
    \/ Dl_RelockClear(s, "he_clear", "done")

\* while (is_downloading_ && ...
Dl_Loop(s) ==
    /\ DlAt(s, "loop")
    /\ dl' = [dl EXCEPT ![s] = IF is_downloading_
                               THEN [@ EXCEPT !.pc = "loop_playing"]
                               ELSE [@ EXCEPT !.pc = "close", !.cause = "cancelled"]]
    /\ UNCHANGED <<shared, queue, sync, threads, wav, ctl, sessions, play,
                   env, call, display, heap, hist>>

\* ... && is_playing_) {
Dl_LoopPlaying(s) ==
    /\ DlAt(s, "loop_playing")
    /\ dl' = [dl EXCEPT ![s] = IF is_playing_
                               THEN [@ EXCEPT !.pc = "read"]
                               ELSE [@ EXCEPT !.pc = "close", !.cause = "cancelled"]]
    /\ UNCHANGED <<shared, queue, sync, threads, wav, ctl, sessions, play,
                   env, call, display, heap, hist>>

\* int bytes_read = http->Read(buffer, chunk_size); and what follows up to the
\* allocation of the chunk.
Dl_Read(s) ==
    /\ DlAt(s, "read")
    /\ \E bytes_read \in (IF dl[s].got_first_byte THEN env.results ELSE env.first),
          expired \in BOOLEAN, allocated \in env.mallocs, head \in env.heads :
         /\ bytes_read > 0 => heap.next < env.chunks
         /\ bytes_read <= 0 \/ ~allocated => head = "raw"
         /\ bytes_read # 0 \/ dl[s].got_first_byte => ~expired
         /\ bytes_read <= 0 => allocated = TRUE
         /\ head # "raw" => ~dl[s].got_first_byte
         /\ IF bytes_read < 0
            THEN /\ dl' = [dl EXCEPT ![s] = [@ EXCEPT !.pc = "close",
                                                      !.cause = "read_error"]]
                 /\ UNCHANGED heap
            ELSE IF bytes_read = 0
            THEN /\ dl' = [dl EXCEPT ![s] =
                             IF ~dl[s].got_first_byte
                             THEN IF expired
                                  THEN [@ EXCEPT !.first_byte_timeout = TRUE,
                                                 !.pc = "close", !.cause = "timeout"]
                                  ELSE [@ EXCEPT !.pc = "loop"]
                             ELSE [@ EXCEPT !.pc = "close", !.cause = "eof"]]
                 /\ UNCHANGED heap
            ELSE IF ~allocated
            THEN /\ dl' = [dl EXCEPT ![s] = [@ EXCEPT !.got_first_byte = TRUE,
                                                      !.pc = "close", !.cause = "alloc"]]
                 /\ UNCHANGED heap
            ELSE /\ dl' = [dl EXCEPT ![s] =
                             [@ EXCEPT !.got_first_byte = TRUE,
                                       !.chunk = [id |-> heap.next + 1,
                                                  size |-> bytes_read, head |-> head],
                                       !.pc = "push_wait"]]
                 /\ heap' = [heap EXCEPT !.next = @ + 1]
    /\ UNCHANGED <<shared, queue, sync, threads, wav, ctl, sessions, play,
                   env, call, display, hist>>

\* http->Read(buffer, chunk_size) is entered and does not return: the transport
\* has no data and no end of stream to report.
Dl_ReadBlocks(s) ==
    /\ DlAt(s, "read")
    /\ dl' = [dl EXCEPT ![s].pc = "blocked"]
    /\ UNCHANGED <<shared, queue, sync, threads, wav, ctl, sessions, play,
                   env, call, display, heap, hist>>

\* The predicate of the push wait.
\* A wait that never holds the push back.
PushMayProceed_Always == TRUE

\* A wait predicate that lets the push go on at the limit itself.
PushMayProceed_AtLimit == buffer_size_ <= MAX_BUFFER_SIZE \/ ~is_downloading_

PushMayProceed == buffer_size_ < MAX_BUFFER_SIZE \/ ~is_downloading_

\* std::unique_lock<std::mutex> lock(buffer_mutex_); buffer_cv_.wait(lock, pred);
Dl_PushWait(s) ==
    /\ DlAt(s, "push_wait")
    /\ Unlocked
    /\ DlTask(s) \notin buffer_cv_
    /\ IF PushMayProceed
       THEN /\ buffer_mutex_' = DlTask(s)
            /\ dl' = [dl EXCEPT ![s].pc = "push"]
            /\ UNCHANGED buffer_cv_
       ELSE /\ buffer_cv_' = buffer_cv_ \cup {DlTask(s)}
            /\ UNCHANGED <<buffer_mutex_, dl>>
    /\ UNCHANGED <<shared, queue, threads, wav, ctl, sessions, play, env, call, display,
                   heap, hist>>

\* if (is_downloading_) { push; buffer_size_ += bytes_read; notify_one(); }
\* else { heap_caps_free(chunk_data); break; }
Dl_Push(s) ==
    /\ DlAt(s, "push")
    /\ buffer_mutex_ = DlTask(s)
    /\ IF is_downloading_
       THEN /\ audio_buffer_' = Append(audio_buffer_, dl[s].chunk)
            /\ buffer_size_' = buffer_size_ + dl[s].chunk.size
            /\ pushed' = Append(pushed, dl[s].chunk.id)
            /\ NotifyOne
            /\ dl' = [dl EXCEPT ![s] = [@ EXCEPT !.chunk = NoChunk, !.pc = "loop"]]
            /\ UNCHANGED heap
       ELSE /\ heap' = [heap EXCEPT !.freed = @ \cup {dl[s].chunk.id}]
            /\ dl' = [dl EXCEPT ![s] = [@ EXCEPT !.chunk = NoChunk, !.pc = "close",
                                                 !.cause = "cancelled"]]
            /\ UNCHANGED <<queue, pushed, buffer_cv_>>
    /\ buffer_mutex_' = NoOwner
    /\ UNCHANGED <<shared, threads, wav, ctl, sessions, play, env, call, display, popped,
                   cleared>>

\* http->Close(); if (first_byte_timeout) { vTaskDelay(100); ResetSampleRate(); ...
Dl_Close(s) ==
    /\ DlAt(s, "close")
    /\ dl' = [dl EXCEPT ![s].pc = IF dl[s].first_byte_timeout
                                  THEN "to_clear_downloading"
                                  ELSE "fin_clear_downloading"]
    /\ UNCHANGED <<shared, queue, sync, threads, wav, ctl, sessions, play,
                   env, call, display, heap, hist>>

\* The first-byte-timeout branch.
Dl_Timeout(s) ==
    \/ Dl_ClearDownloading(s, "to_clear_downloading", "to_clear_playing")
    \/ Dl_ClearPlaying(s, "to_clear_playing", "to_notify")
    \/ Dl_LockNotify(s, "to_notify", "to_clear")
    \/ Dl_RelockClear(s, "to_clear", "done")

\* { std::lock_guard<std::mutex> lock(buffer_mutex_); buffer_cv_.notify_all(); }
Dl_FinishNotify(s) ==
    /\ DlAt(s, "fin_notify")
    /\ LockedNotifyAll
    /\ dl' = [dl EXCEPT ![s].pc = "done"]
    /\ UNCHANGED <<shared, queue, threads, wav, ctl, sessions, play, env, call, display,
                   heap, hist>>

\* The end of the function: is_downloading_ = false; and the notification.
Dl_Finish(s) ==
    \/ Dl_ClearDownloading(s, "fin_clear_downloading", "fin_notify")
    \/ Dl_FinishNotify(s)

\* The steps of a download whose connection opens at once with a good status.
Dl_Stream(s) ==
    \/ Dl_Open(s)
    \/ Dl_Status(s)
    \/ Dl_Loop(s)
    \/ Dl_LoopPlaying(s)
    \/ Dl_Read(s)
    \/ Dl_PushWait(s)
    \/ Dl_Push(s)
    \/ Dl_Close(s)
    \/ Dl_Finish(s)

DownloadAudioStreamFromUrl(s) ==
    \/ Dl_Stream(s)
    \/ Dl_Retry(s)
    \/ Dl_NotFound(s)
    \/ Dl_HttpError(s)
    \/ Dl_Timeout(s)

\* ------------------------------------------------------------------
\* The play task: PlayAudioStream
\* ------------------------------------------------------------------
PlayAt(s, pc) == play[s].pc = pc

Min(a, b) == IF a < b THEN a ELSE b

RECURSIVE WindowBytes(_)
WindowBytes(w) == IF w = <<>> THEN 0 ELSE Head(w).len + WindowBytes(Tail(w))

\* The window after its first n bytes are consumed (read_ptr += n).
RECURSIVE Consume(_, _)
Consume(w, n) ==
    IF n <= 0 \/ w = <<>> THEN w
    ELSE IF Head(w).len <= n THEN Consume(Tail(w), n - Head(w).len)
    ELSE <<[Head(w) EXCEPT !.len = @ - n]>> \o Tail(w)

\* memcpy(mp3_input_buffer + bytes_left, chunk.data, copy_size): the bytes of the
\* chunk go behind the bytes the window still holds.
Refill_Front(w, c, copy_size) ==
    IF copy_size > 0 THEN <<[id |-> c.id, len |-> copy_size]>> \o w ELSE w

Refill(w, c, copy_size) ==
    IF copy_size > 0 THEN w \o <<[id |-> c.id, len |-> copy_size]>> ELSE w

\* A wait before the first packet that any queued chunk ends.
Primed_AnyChunk == audio_buffer_ # <<>>

\* The predicate of the wait before the first packet.
Primed ==
    buffer_size_ >= MIN_BUFFER_SIZE \/ (~is_downloading_ /\ audio_buffer_ # <<>>)

\* { std::unique_lock<std::mutex> lock(buffer_mutex_); buffer_cv_.wait(lock, pred); }
\* (The codec is present; the counters the function resets first are diagnostic.)
Play_Prime(s) ==
    /\ PlayAt(s, "prime")
    /\ Unlocked
    /\ PlayTask(s) \notin buffer_cv_
    /\ IF Primed
       THEN /\ play' = [play EXCEPT ![s].pc = "alloc"]
            /\ UNCHANGED buffer_cv_
       ELSE /\ buffer_cv_' = buffer_cv_ \cup {PlayTask(s)}
            /\ UNCHANGED play
    /\ UNCHANGED <<shared, queue, buffer_mutex_, threads, wav, ctl, sessions, dl,
                   env, call, display, heap, hist>>

\* A loop that plays in every state but listening and speaking.
IsIdle_Always(st) == TRUE

\* else if (st != kDeviceStateIdle) { vTaskDelay(50); continue; }
IsIdle(st) == st = "idle"

\* mp3_input_buffer = heap_caps_malloc(8192, ...);
\* if (!mp3_input_buffer) { is_playing_ = false; return; }
Play_Alloc(s) ==
    /\ PlayAt(s, "alloc")
    /\ \E allocated \in env.mallocs :
         IF allocated
         THEN /\ play' = [play EXCEPT ![s].pc = "loop"]
              /\ UNCHANGED is_playing_
         ELSE /\ play' = [play EXCEPT ![s].pc = "done"]
              /\ is_playing_' = FALSE
    /\ UNCHANGED <<is_downloading_, queue, sync, threads, wav, ctl, sessions, dl,
                   env, call, display, heap, hist>>

\* while (is_playing_) { DeviceState st = app.GetDeviceState(); ...
\*   if (bytes_left < 4096) {
\*   (st and toggled are what this iteration observed and whether it called
\*   ToggleChatState; each back-off ends with continue)
\*   if (!song_name_displayed_ && !current_song_name_.empty()) {
\*       display->SetMusicInfo(formatted); song_name_displayed_ = true; }
\*   (the board has a display; labels counts this task's calls of SetMusicInfo
\*   with a song name)
Play_Loop(s) ==
    /\ PlayAt(s, "loop")
    /\ \E st \in env.devices :
         LET plays == is_playing_ /\ st \notin {"listening", "speaking"} /\ IsIdle(st)
             shows == plays /\ ~song_name_displayed_ /\ current_song_name_ # ""
             n == IF shows THEN play[s].labels + 1 ELSE play[s].labels
         IN /\ play' = [play EXCEPT ![s] =
                    IF ~is_playing_
                    THEN [@ EXCEPT !.pc = "exit"]
                    ELSE IF st \in {"listening", "speaking"}
                    THEN [@ EXCEPT !.st = st, !.toggled = TRUE, !.pc = "loop"]
                    ELSE IF ~IsIdle(st)
                    THEN [@ EXCEPT !.st = st, !.toggled = FALSE, !.pc = "loop"]
                    ELSE IF play[s].bytes_left < chunk_size
                    THEN [@ EXCEPT !.st = st, !.toggled = FALSE, !.labels = n,
                                   !.pc = "pop"]
                    ELSE [@ EXCEPT !.st = st, !.toggled = FALSE, !.labels = n,
                                   !.pc = "decode"]]
            /\ song_name_displayed_' = (song_name_displayed_ \/ shows)
            /\ music_info' = IF shows THEN current_song_name_ ELSE music_info
    /\ UNCHANGED <<shared, queue, sync, threads, wav, ctl, sessions, dl,
                   env, call, current_song_name_, heap, hist>>

\* A pop that takes the front chunk and leaves it in the queue.
TakeFront_NoPop(s) ==
    /\ play' = [play EXCEPT ![s] = [@ EXCEPT !.chunk = Head(audio_buffer_),
                                             !.pc = "feed"]]
    /\ UNCHANGED <<audio_buffer_, buffer_size_>>
    /\ popped' = Append(popped, Head(audio_buffer_).id)
    /\ NotifyOne
    /\ buffer_mutex_' = NoOwner

\* chunk = audio_buffer_.front(); audio_buffer_.pop(); buffer_size_ -= chunk.size;
\* buffer_cv_.notify_one();  and the lock is released.
TakeFront(s) ==
    /\ play' = [play EXCEPT ![s] = [@ EXCEPT !.chunk = Head(audio_buffer_),
                                             !.pc = "feed"]]
    /\ audio_buffer_' = Tail(audio_buffer_)
    /\ buffer_size_' = buffer_size_ - Head(audio_buffer_).size
    /\ popped' = Append(popped, Head(audio_buffer_).id)
    /\ NotifyOne
    /\ buffer_mutex_' = NoOwner

\* A pop that waits although the downloader has stopped.
AtEndOfStream_Never == FALSE

\* if (audio_buffer_.empty()) { if (!is_downloading_) { ... break; }
AtEndOfStream == audio_buffer_ = <<>> /\ ~is_downloading_

\* std::unique_lock<std::mutex> lock(buffer_mutex_); and the test of the queue.
Play_Pop(s) ==
    /\ PlayAt(s, "pop")
    /\ Unlocked
    /\ IF AtEndOfStream
       THEN /\ play' = [play EXCEPT ![s].pc = "exit"]
            /\ UNCHANGED <<queue, sync, popped>>
       ELSE IF audio_buffer_ = <<>>
       THEN /\ play' = [play EXCEPT ![s].pc = "pop_wait"]
            /\ buffer_mutex_' = PlayTask(s)
            /\ UNCHANGED <<queue, buffer_cv_, popped>>
       ELSE TakeFront(s)
    /\ UNCHANGED <<shared, threads, wav, ctl, sessions, dl, env, call, display, heap,
                   pushed, cleared>>

\* buffer_cv_.wait(lock, [this]{ return !audio_buffer_.empty() || !is_downloading_; });
\* if (audio_buffer_.empty()) continue;
Play_PopWait(s) ==
    /\ PlayAt(s, "pop_wait")
    /\ \/ buffer_mutex_ = PlayTask(s)
       \/ Unlocked /\ PlayTask(s) \notin buffer_cv_
    /\ IF audio_buffer_ # <<>> \/ ~is_downloading_
       THEN IF audio_buffer_ = <<>>
            THEN /\ play' = [play EXCEPT ![s].pc = "loop"]
                 /\ buffer_mutex_' = NoOwner
                 /\ UNCHANGED <<queue, buffer_cv_, popped>>
            ELSE TakeFront(s)
       ELSE /\ buffer_cv_' = buffer_cv_ \cup {PlayTask(s)}
            /\ buffer_mutex_' = NoOwner
            /\ UNCHANGED <<queue, play, popped>>
    /\ UNCHANGED <<shared, threads, wav, ctl, sessions, dl, env, call, display, heap,
                   pushed, cleared>>

\* a & b and a | b on non-negative integers.
RECURSIVE BitAnd(_, _)
BitAnd(a, b) ==
    IF a = 0 \/ b = 0 THEN 0
    ELSE (a % 2) * (b % 2) + 2 * BitAnd(a \div 2, b \div 2)

RECURSIVE BitOr(_, _)
BitOr(a, b) ==
    IF a = 0 THEN b
    ELSE IF b = 0 THEN a
    ELSE (IF a % 2 = 1 \/ b % 2 = 1 THEN 1 ELSE 0) + 2 * BitOr(a \div 2, b \div 2)

\* memcmp(data + off, s, Len(s)) == 0
Memcmp(data, off, s) == SubSeq(data, off + 1, off + Len(s)) = s

\* A size byte taken whole.
Low7_Whole(b) == b

\* data[i] & 0x7F
Low7(b) == BitAnd(b, 127)

\* if (size < 10) return 0; if (memcmp(data, "ID3", 3) != 0) return 0;
\* tag_size = ((data[6] & 0x7F) << 21) | ((data[7] & 0x7F) << 14)
\*          | ((data[8] & 0x7F) << 7) | (data[9] & 0x7F);  return 10 + tag_size;
SkipId3Tag(data, size) ==
    IF size < 10 THEN 0
    ELSE IF ~Memcmp(data, 0, <<73, 68, 51>>) THEN 0
    ELSE 10 + BitOr(BitOr(BitOr(Low7(data[7]) * 2^21, Low7(data[8]) * 2^14),
                          Low7(data[9]) * 2^7),
                    Low7(data[10]))

\* The first ten bytes of a chunk that begins with a metadata tag: "ID3",
\* version and flags, and the four size bytes.
TagHeader(head) ==
    <<73, 68, 51, 3, 0, 0>> \o (IF head = "id3" THEN <<0, 0, 2, 1>> ELSE <<0, 0, 64, 0>>)

\* What SkipId3Tag(read_ptr, bytes_left) returns for the window: the tag is
\* seen when the window begins with the first bytes of chunk c.
TagSkip(c, behind, bytes_left) ==
    IF c.head \in Id3Heads /\ behind = 0
    THEN SkipId3Tag(TagHeader(c.head), bytes_left)
    ELSE 0

\* The first unparsed chunk is taken for WAV when it holds the RIFF/WAVE header.
IsWavHeader(c) == c.size >= 44 /\ c.head = "riff"

\* if (chunk.data && chunk.size > 0) { format detection; refill of the window;
\* metadata-tag skip; heap_caps_free(chunk.data); }
Play_Feed(s) ==
    /\ PlayAt(s, "feed")
    /\ LET c == play[s].chunk
           detect == ~wav_header_parsed_ /\ IsWavHeader(c)
           \* on the data sub-chunk the header is cut off the chunk
           size == IF detect THEN c.size - 44 ELSE c.size
           space == mp3_input_size - play[s].bytes_left
           copy_size == Min(size, space)
           filled == play[s].bytes_left + copy_size
           \* if (!id3_processed && !wav_mode_ && bytes_left >= 10)
           tagged == ~play[s].id3_processed /\ ~(wav_mode_ \/ detect) /\ filled >= 10
           skip == IF tagged THEN TagSkip(c, play[s].bytes_left, filled) ELSE 0
       IN /\ wav_mode_' = (wav_mode_ \/ detect)
          /\ wav_header_parsed_' = (wav_header_parsed_ \/ detect)
          /\ IF detect
             THEN \E fmt \in HeaderFormats :
                    /\ wav_channels_' = fmt.channels
                    /\ wav_sample_rate_' = fmt.sample_rate
                    /\ wav_bits_per_sample_' = fmt.bits_per_sample
             ELSE UNCHANGED <<wav_channels_, wav_sample_rate_, wav_bits_per_sample_>>
          /\ play' = [play EXCEPT ![s] =
                        [@ EXCEPT !.window = Consume(Refill(@, c, copy_size), skip),
                                  !.bytes_left = filled - skip,
                                  !.read_ptr = skip,
                                  !.id3_processed = @ \/ detect \/ tagged,
                                  !.chunk = NoChunk,
                                  !.pc = "decode"]]
          /\ heap' = [heap EXCEPT !.freed = @ \cup {c.id}]
    /\ UNCHANGED <<shared, queue, sync, threads, ctl, sessions, dl, env, call, display, hist>>

\* if (wav_mode_) { emit the window as one packet; bytes_left = 0; continue; }
\* else { MP3FindSyncWord; MP3Decode; on success emit one packet }
\* (emitted counts the calls of app.AddAudioData)
Play_Decode(s) ==
    /\ PlayAt(s, "decode")
    /\ IF wav_mode_
       THEN play' = [play EXCEPT ![s] =
                       [@ EXCEPT !.bytes_left = 0, !.window = <<>>,
                                 !.emitted = IF play[s].bytes_left > 0 THEN @ + 1 ELSE @,
                                 !.pc = "loop"]]
       ELSE \E r \in IF play[s].bytes_left <= 0 THEN {"nosync"} ELSE env.decodes :
              /\ play' = [play EXCEPT ![s] =
                   IF r = "nosync"
                   THEN [@ EXCEPT !.bytes_left = 0, !.window = <<>>, !.pc = "loop"]
                   ELSE IF r = "error"
                   THEN [@ EXCEPT !.pc = "loop"]
                   ELSE [@ EXCEPT !.bytes_left = @ - Min(@, FrameBytes),
                                  !.read_ptr = @ + Min(play[s].bytes_left, FrameBytes),
                                  !.window = Consume(@, Min(play[s].bytes_left, FrameBytes)),
                                  !.emitted = @ + 1,
                                  !.pc = "loop"]]
    /\ UNCHANGED <<shared, queue, sync, threads, wav, ctl, sessions, dl,
                   env, call, display, heap, hist>>

\* heap_caps_free(mp3_input_buffer); is_playing_ = false;
Play_Exit(s) ==
    /\ PlayAt(s, "exit")
    /\ is_playing_' = FALSE
    /\ play' = [play EXCEPT ![s] = [@ EXCEPT !.bytes_left = 0, !.window = <<>>,
                                             !.pc = "exit_reset"]]
    /\ UNCHANGED <<is_downloading_, queue, sync, threads, wav, ctl, sessions, dl,
                   env, call, display, heap, hist>>

\* ResetSampleRate(); display->SetMusicInfo("");  and the task ends.
Play_ExitReset(s) ==
    /\ PlayAt(s, "exit_reset")
    /\ play' = [play EXCEPT ![s].pc = "done"]
    /\ music_info' = ""
    /\ UNCHANGED <<shared, queue, sync, threads, wav, ctl, sessions, dl,
                   env, call, current_song_name_, song_name_displayed_, heap, hist>>

PlayAudioStream(s) ==
    \/ Play_Prime(s)
    \/ Play_Alloc(s)
    \/ Play_Loop(s)
    \/ Play_Pop(s)
    \/ Play_PopWait(s)
    \/ Play_Feed(s)
    \/ Play_Decode(s)
    \/ Play_Exit(s)
    \/ Play_ExitReset(s)

\* ------------------------------------------------------------------
\* The environment
\* ------------------------------------------------------------------
\* A condition-variable wait may return without a notification.
SpuriousWakeup ==
    /\ \E w \in buffer_cv_ : buffer_cv_' = buffer_cv_ \ {w}
    /\ UNCHANGED <<shared, queue, buffer_mutex_, threads, wav, ctl, sessions, dl,
                   play, env, call, display, heap, hist>>

\* ------------------------------------------------------------------
\* Specifications
\* ------------------------------------------------------------------
Tasks ==
    \/ \E s \in Sessions : DownloadAudioStreamFromUrl(s)
    \/ \E s \in Sessions : PlayAudioStream(s)
    \/ SpuriousWakeup

\* One session, stopped at any moment, in any environment.
Init == Constructed(AnySession) /\ call = NoCall

Next ==
    \/ Start_Call
    \/ Start_ClearPlaying
    \/ Start_Notify
    \/ Start_AbandonDownload
    \/ Start_StopPlay
    \/ Start_Clear
    \/ Start_Reset
    \/ Start_SpawnDownload
    \/ Start_SpawnPlay
    \/ StopStreaming
    \/ Tasks

Spec == Init /\ [][Next]_vars

\* Sessions started one over the other.
InitRestart == Constructed(Restart) /\ call = NoCall

NextRestart ==
    \/ StartStreaming
    \/ \E s \in Sessions : Dl_Stream(s) \/ Dl_Timeout(s)
    \/ \E s \in Sessions : PlayAudioStream(s)
    \/ SpuriousWakeup

RestartSpec == InitRestart /\ [][NextRestart]_vars

\* One session that fills the queue.
InitFill == Constructed(Fill) /\ call = NoCall

NextFill ==
    \/ Start_Call
    \/ Start_ClearPlaying
    \/ Start_Notify
    \/ Start_AbandonDownload
    \/ Start_StopPlay
    \/ Start_Clear
    \/ Start_Reset
    \/ Start_SpawnDownload
    \/ Start_SpawnPlay
    \/ \E s \in Sessions : Dl_Stream(s)
    \/ \E s \in Sessions : PlayAudioStream(s)
    \/ SpuriousWakeup

FillSpec == InitFill /\ [][NextFill]_vars

\* One session on a body with a metadata tag.
InitTagged == Constructed(Tagged) /\ call = NoCall

TaggedSpec == InitTagged /\ [][NextFill]_vars

\* A session that fills the queue and is then replaced: the caller starts the
\* second session once the queue of the first is full.
InitOverrun == Constructed(Overrun) /\ call = NoCall

Start_CallWhenFull ==
    /\ sessions = 0 \/ buffer_size_ >= MAX_BUFFER_SIZE
    /\ Start_Call

NextOverrun ==
    \/ Start_CallWhenFull
    \/ Start_ClearPlaying
    \/ Start_Notify
    \/ Start_AbandonDownload
    \/ Start_StopPlay
    \/ Start_NotifyPlay
    \/ Start_AbandonPlay
    \/ Start_Clear
    \/ Start_Reset
    \/ Start_SpawnDownload
    \/ Start_SpawnPlay
    \/ \E s \in Sessions : Dl_Stream(s)
    \/ \E s \in Sessions :
          Play_Prime(s) \/ Play_Alloc(s) \/ Play_Loop(s) \/ Play_Exit(s) \/ Play_ExitReset(s)
    \/ SpuriousWakeup

OverrunSpec == InitOverrun /\ [][NextOverrun]_vars

\* The same with reads one byte short, so that the last push takes the queue
\* over its limit, and enough of them to fill the queue of the second session.
InitRefilled == Constructed(Refilled) /\ call = NoCall

\* The two download tasks are scheduled one iteration of the read loop at a
\* time: a task runs while the other one is between two iterations, waits on
\* buffer_cv_, or does not run at all.
InTurn(s) ==
    \A o \in Sessions \ {s} :
        dl[o].pc \in {"none", "loop", "done"} \/ DlTask(o) \in buffer_cv_

Dl_StreamInTurn(s) == InTurn(s) /\ Dl_Stream(s)

NextRefilled ==
    \/ Start_CallWhenFull
    \/ Start_ClearPlaying
    \/ Start_Notify
    \/ Start_AbandonDownload
    \/ Start_StopPlay
    \/ Start_NotifyPlay
    \/ Start_AbandonPlay
    \/ Start_Clear
    \/ Start_Reset
    \/ Start_SpawnDownload
    \/ Start_SpawnPlay
    \/ \E s \in Sessions : Dl_StreamInTurn(s)
    \/ \E s \in Sessions :
          Play_Prime(s) \/ Play_Alloc(s) \/ Play_Loop(s) \/ Play_Exit(s) \/ Play_ExitReset(s)
    \/ SpuriousWakeup

RefilledSpec == InitRefilled /\ [][NextRefilled]_vars

\* One session under a scheduler that lets every thread run: a step of
\* StartStreaming, of the download task or of the play task that stays possible
\* is taken in the end.  Calls of StartStreaming and wakeups without a
\* notification are under no such obligation.
InitLive == Constructed(Scenario) /\ call = NoCall

StartSteps ==
    \/ Start_ClearPlaying
    \/ Start_Notify
    \/ Start_AbandonDownload
    \/ Start_StopPlay
    \/ Start_Clear
    \/ Start_Reset
    \/ Start_SpawnDownload
    \/ Start_SpawnPlay

NextLive ==
    \/ Start_Call
    \/ StartSteps
    \/ \E s \in Sessions : Dl_Stream(s) \/ Dl_Retry(s) \/ Dl_NotFound(s)
    \/ \E s \in Sessions : PlayAudioStream(s)
    \/ SpuriousWakeup

Fairness ==
    /\ WF_vars(StartSteps)
    /\ \A s \in Sessions : WF_vars(Dl_Stream(s) \/ Dl_Retry(s) \/ Dl_NotFound(s))
    /\ \A s \in Sessions : WF_vars(PlayAudioStream(s))

LiveSpec == InitLive /\ [][NextLive]_vars /\ Fairness

\* Sessions started one over the other under such a scheduler, with a transport
\* that may keep a read from returning.
InitRelaunch == Constructed(Relaunch) /\ call = NoCall

RestartSteps ==
    \/ StartSteps
    \/ Start_NotifyPlay
    \/ Start_AbandonPlay

NextRelaunch ==
    \/ Start_Call
    \/ RestartSteps
    \/ StartStreamingById
    \/ \E s \in Sessions : Dl_Stream(s) \/ Dl_NotFound(s)
    \/ \E s \in Sessions : Dl_ReadBlocks(s)
    \/ \E s \in Sessions : PlayAudioStream(s)
    \/ SpuriousWakeup

FairnessRelaunch ==
    /\ WF_vars(RestartSteps)
    /\ WF_vars(ByIdSteps)
    /\ \A s \in Sessions : WF_vars(Dl_Stream(s) \/ Dl_NotFound(s))
    /\ \A s \in Sessions : WF_vars(PlayAudioStream(s))

RelaunchSpec == InitRelaunch /\ [][NextRelaunch]_vars /\ FairnessRelaunch

\* ------------------------------------------------------------------
\* Properties
\* ------------------------------------------------------------------
\* The position of a chunk in the order of the pops; 0 when it was not popped.
RECURSIVE PopIndex(_, _)
PopIndex(ids, id) ==
    IF ids = <<>> THEN 0
    ELSE IF ids[Len(ids)] = id THEN Len(ids)
    ELSE PopIndex(SubSeq(ids, 1, Len(ids) - 1), id)

Kept(id) == id \notin cleared

\* C1: StopStreaming returns only when both tasks of the session have left
\* their functions, the queue is empty and buffer_size_ is 0.
C1_StopReturnsQuiescent ==
    CtlAt("stop_return") =>
        /\ \A s \in 1 .. sessions : dl[s].pc = "done" /\ play[s].pc = "done"
        /\ audio_buffer_ = <<>>
        /\ buffer_size_ = 0

\* C2: whenever buffer_mutex_ is not held, buffer_size_ is the sum of the sizes
\* of the chunks in audio_buffer_, and it is never negative.
C2_SizeIsSumOfResident ==
    Unlocked => buffer_size_ = SumSizes(audio_buffer_) /\ buffer_size_ >= 0

\* A clear has freed resident chunks, chunks were popped, and a chunk is
\* resident again with the mutex free.
C2_Witness ==
    /\ Unlocked
    /\ cleared # {}
    /\ popped # <<>>
    /\ audio_buffer_ # <<>>

\* C3: a push appends only while buffer_size_ is below MAX_BUFFER_SIZE, and the
\* download task leaves its wait before the push only when buffer_size_ is
\* below MAX_BUFFER_SIZE or is_downloading_ is false.
C3_PushBelowLimit ==
    [][ /\ pushed' # pushed => buffer_size_ < MAX_BUFFER_SIZE
        /\ \A s \in Sessions :
              DlAt(s, "push_wait") /\ dl'[s].pc # "push_wait" =>
                  buffer_size_ < MAX_BUFFER_SIZE \/ ~is_downloading_ ]_vars

\* The download task is blocked before its push with the queue at the limit.
C3_Witness ==
    /\ DlTask(1) \in buffer_cv_
    /\ DlAt(1, "push_wait")
    /\ is_downloading_
    /\ buffer_size_ >= MAX_BUFFER_SIZE

\* C4: a pop tried with the queue empty and is_downloading_ false ends the
\* play loop, and no step the play task takes at its pop in such a state
\* leaves it blocked on buffer_cv_.
C4_EndOfStreamWithoutWait ==
    [][ \A s \in Sessions :
          audio_buffer_ = <<>> /\ ~is_downloading_ =>
              /\ PlayAt(s, "pop") /\ play'[s] # play[s] => play'[s].pc = "exit"
              /\ play[s].pc \in {"pop", "pop_wait"} /\ PlayTask(s) \notin buffer_cv_
                    => PlayTask(s) \notin buffer_cv_' ]_vars

\* The play task has left its loop at the pop while is_playing_ is still true.
C4_Witness ==
    /\ PlayAt(1, "exit")
    /\ is_playing_
    /\ audio_buffer_ = <<>>
    /\ ~is_downloading_
    /\ popped # <<>>

\* C5: the chunks are popped in the order they were pushed, those freed by a
\* clear left out, and the bytes of a popped chunk lie in the decode window
\* behind the bytes of the chunks popped before it.
C5_FifoOrder ==
    /\ SelectSeq(pushed, Kept) = popped \o Ids(audio_buffer_)
    /\ \A s \in Sessions :
          LET w == play[s].window IN
          /\ \A i, j \in 1 .. Len(w) :
                i < j => PopIndex(popped, w[i].id) < PopIndex(popped, w[j].id)
          /\ \A i \in 1 .. Len(w) :
                /\ PopIndex(popped, w[i].id) > 0
                /\ play[s].chunk # NoChunk =>
                      PopIndex(popped, w[i].id) < PopIndex(popped, play[s].chunk.id)

\* A clear has freed a chunk and a window holds bytes of two later chunks.
C5_Witness ==
    /\ cleared # {}
    /\ \E s \in Sessions : Len(play[s].window) = 2

\* C6: once a download has got status 200, with a body of non-empty reads
\* ended by a read of 0 and the device idle, the run ends for good with every
\* read pushed, every pushed chunk popped, both tasks finished and both
\* is_downloading_ and is_playing_ false.
C6_SuccessCompletes ==
    [](DlAt(1, "loop") =>
         <>[](/\ DlAt(1, "done") /\ dl[1].cause = "eof"
              /\ PlayAt(1, "done")
              /\ Len(pushed) = heap.next
              /\ popped = pushed
              /\ ~is_downloading_
              /\ ~is_playing_))

\* C7: once a download has got status 404, the run ends for good with no chunk
\* read, both flags false, the queue empty, PlaySound called once,
\* StartListening called, and the download task finished.
C7_NotFoundCleanup ==
    [](DlAt(1, "nf_clear_downloading") =>
         <>[](/\ DlAt(1, "done")
              /\ heap.next = 0
              /\ ~is_downloading_
              /\ ~is_playing_
              /\ audio_buffer_ = <<>>
              /\ dl[1].sounds = 1
              /\ dl[1].listens = 1))

\* C8: PlaySound and StartListening are called by a download task only after
\* status 404, and then once each; a task that ends any other way has called
\* neither.
C8_ToneOnlyOnNotFound ==
    \A s \in Sessions :
        /\ dl[s].cause # "404" => dl[s].sounds = 0 /\ dl[s].listens = 0
        /\ dl[s].sounds <= 1
        /\ dl[s].listens <= 1

\* A download task has ended on the first-byte timeout, silent.
C8_Witness ==
    /\ DlAt(1, "done")
    /\ dl[1].cause = "timeout"
    /\ dl[1].sounds = 0
    /\ dl[1].listens = 0

\* The ways a download ends that the program treats as fatal.
FatalCauses == {"open_failed", "404", "http", "read_error", "timeout", "alloc"}

\* C9: a download task that ends on a fatal condition leaves is_downloading_
\* and is_playing_ false, the queue empty with buffer_size_ 0, and the play
\* task of its session not blocked on buffer_cv_.
C9_FatalCleanup ==
    [][ \A s \in Sessions :
          ~DlAt(s, "done") /\ dl'[s].pc = "done" /\ dl'[s].cause \in FatalCauses =>
              /\ ~is_downloading_'
              /\ ~is_playing_'
              /\ audio_buffer_' = <<>>
              /\ buffer_size_' = 0
              /\ PlayTask(s) \notin buffer_cv_' ]_vars

\* C10: a download task opens the transport at most twice; it opens a second
\* time exactly after a first open that failed; a second failure ends the task
\* at once; no later step opens again.
C10_OpenAtMostTwice ==
    [][ \A s \in Sessions :
          /\ dl'[s].opens <= 2
          /\ DlAt(s, "open") /\ dl'[s] # dl[s] =>
                dl'[s].opens = 1 /\ dl'[s].pc \in {"status", "retry"}
          /\ DlAt(s, "retry") /\ dl'[s] # dl[s] =>
                /\ dl'[s].opens = 2
                /\ dl'[s].pc \in {"status", "done"}
                /\ dl'[s].pc = "done" => dl'[s].cause = "open_failed"
          /\ dl[s].pc \notin {"open", "retry"} => dl'[s].opens = dl[s].opens
          /\ dl'[s].opens = 2 /\ dl[s].opens = 1 => DlAt(s, "retry") ]_vars

\* A download task has ended after two failed opens, with nothing read.
C10_Witness ==
    /\ DlAt(1, "done")
    /\ dl[1].cause = "open_failed"
    /\ dl[1].opens = 2
    /\ ~dl[1].got_first_byte
    /\ heap.next = 0

\* C11: a call of StartStreaming polls at most max_waits times for a task of
\* the session before and always comes back to its caller, whatever that
\* session's tasks do.
C11_StartReturns ==
    /\ [](ctl.waits <= max_waits)
    /\ [](CtlAt("start_clear_playing") => <>CtlAt("idle"))

\* C12: a call of StartStreamingById polls at most max_waits times for a task
\* of the session before and always comes back to its caller, also when the
\* download task of that session never ends.
C12_StartByIdReturns ==
    /\ [](ctl.waits <= max_waits)
    /\ [](CtlAt("byid_clear_playing") => <>CtlAt("idle"))

\* C13: whenever StartStreaming or StartStreamingById is about to start the
\* tasks of a session, the container state has its defaults: wav_mode_ and
\* wav_header_parsed_ false, one channel, 16000 Hz, 16 bits.
C13_ContainerStateReset ==
    CtlAt("start_spawn_download") \/ CtlAt("byid_spawn_download") =>
        /\ ~wav_mode_
        /\ ~wav_header_parsed_
        /\ wav_channels_ = WavDefaults.channels
        /\ wav_sample_rate_ = WavDefaults.sample_rate
        /\ wav_bits_per_sample_ = WavDefaults.bits_per_sample

\* C14: once is_downloading_ is false, a download task that has been started
\* eventually returns, whichever step it is at (the push wait and every
\* error-cleanup path included).
C14_ProducerExits ==
    \A s \in 1..MaxSessions :
        [](~is_downloading_ /\ dl[s].pc # "none" => <>DlAt(s, "done"))

\* C15: once is_playing_ is false and the queue is empty, a play task that has
\* been started eventually returns, whichever wait it is suspended in (the
\* priming wait, the empty-queue wait, the device back-off).
C15_ConsumerExits ==
    \A s \in 1..MaxSessions :
        [](~is_playing_ /\ audio_buffer_ = <<>> /\ play[s].pc # "none"
              => <>PlayAt(s, "done"))

\* C16: with the device idle and is_playing_ true, whenever the download task
\* has stopped (is_downloading_ false, the task returned) and the queue is
\* empty, the play task eventually returns with is_playing_ false; a download
\* task that stopped without pushing anything is included.
C16_ConsumerTerminates ==
    [](/\ env.devices = {"idle"}
       /\ is_playing_ /\ ~is_downloading_ /\ DlAt(1, "done")
       /\ audio_buffer_ = <<>>
       /\ play[1].pc # "none"
       => <>(PlayAt(1, "done") /\ ~is_playing_))

\* A step in which play task s takes the front chunk off the queue, and one in
\* which it calls app.AddAudioData.
Pops(s) == play[s].pc \in {"pop", "pop_wait"} /\ play'[s].pc = "feed"
Emits(s) == play'[s].emitted # play[s].emitted

\* C17: a play task pops a chunk or hands a packet to AddAudioData only in a
\* loop iteration that observed the device idle; an iteration that observes
\* listening or speaking calls ToggleChatState and does neither, and one that
\* observes any other non-idle state does neither and does not toggle.
C17_PlayOnlyWhenIdle ==
    [][\A s \in Sessions :
         /\ Pops(s) \/ Emits(s) => play[s].st = "idle" /\ play'[s].st = "idle"
         /\ PlayAt(s, "loop") /\ play'[s] # play[s] /\ play'[s].pc # "exit" =>
              /\ play'[s].st \in env.devices
              /\ play'[s].toggled = (play'[s].st \in {"listening", "speaking"})
              /\ play'[s].st # "idle" =>
                    /\ play'[s].pc = "loop"
                    /\ popped' = popped /\ audio_buffer_' = audio_buffer_
                    /\ ~Emits(s)]_vars

C17_Witness ==
    \E s \in Sessions :
        /\ play[s].emitted > 0 /\ Len(popped) > 0
        /\ play[s].toggled /\ play[s].st = "speaking" /\ PlayAt(s, "loop")

\* C18: a play task leaves its first wait only in a state where buffer_size_
\* has reached MIN_BUFFER_SIZE (16 KiB) or is_downloading_ is false, and up to
\* then it has popped no chunk and emitted no packet.
C18_PrimedBeforePlaying ==
    [][\A s \in Sessions :
         /\ PlayAt(s, "prime") /\ play'[s].pc # "prime" =>
               buffer_size_ >= MIN_BUFFER_SIZE \/ ~is_downloading_
         /\ play[s].pc \in {"none", "prime"} =>
               /\ play[s].emitted = 0
               /\ play[s].chunk = NoChunk /\ play[s].bytes_left = 0
               /\ ~Pops(s) /\ ~Emits(s)]_vars

C18_Witness ==
    /\ PlayAt(1, "alloc")
    /\ buffer_size_ >= MIN_BUFFER_SIZE
    /\ is_downloading_
    /\ popped = <<>>

\* ------------------------------------------------------------------
\* SkipId3Tag on its own
\* ------------------------------------------------------------------
\* Longest buffer handed to SkipId3Tag.
MaxTagBytes == 12

\* The buffers SkipId3Tag is run on: "ID3" or another three bytes, version and
\* flags, four size bytes, then padding; cut to size bytes.
TagHeads == {<<73, 68, 51>>, <<73, 68, 50>>, <<82, 73, 70>>}
TagSizeBytes == {0, 1, 2, 127, 128, 255}
TagSizes == {0, 9, 10, MaxTagBytes}
TagBuffers ==
    {SubSeq(h \o <<3, 0, 0>> \o <<b6, b7, b8, b9>> \o [k \in 1..(MaxTagBytes - 10) |-> 0],
            1, n) :
        h \in TagHeads, b6 \in TagSizeBytes, b7 \in TagSizeBytes,
        b8 \in TagSizeBytes, b9 \in TagSizeBytes, n \in TagSizes}

InitId3 ==
    /\ Constructed(AnySession)
    /\ \E data \in TagBuffers :
         call = [op |-> "SkipId3Tag", pc |-> "called", data |-> data,
                 size |-> Len(data), result |-> 0]

\* size_t skip = SkipId3Tag(data, size);
Call_SkipId3Tag ==
    /\ call.op = "SkipId3Tag"
    /\ call.pc = "called"
    /\ call' = [call EXCEPT !.pc = "returned",
                            !.result = SkipId3Tag(call.data, call.size)]
    /\ UNCHANGED <<shared, queue, sync, threads, wav, ctl, sessions, dl, play,
                   env, heap, hist, display>>

NextId3 == Call_SkipId3Tag

Id3Spec == InitId3 /\ [][NextId3]_vars

\* ------------------------------------------------------------------
\* The play loop on a WAV stream, on its own: device idle, one chunk per read
\* ------------------------------------------------------------------
\* Stereo frames in the longest PCM body.
MaxFrames == 2

\* Little-endian fields as they lie in the chunk.
LE16(v) == LET u == (v + 65536) % 65536 IN <<u % 256, u \div 256>>
LE32(v) == <<v % 256, (v \div 256) % 256, (v \div 65536) % 256, v \div 16777216>>
\* *(uint16_t*)(data + off), *(uint32_t*)(data + off), and an int16_t sample
U16(data, off) == data[off + 1] + 256 * data[off + 2]
U32(data, off) == U16(data, off) + 65536 * U16(data, off + 2)
Int16(lo, hi) == LET u == lo + 256 * hi IN IF u >= 32768 THEN u - 65536 ELSE u

\* The 44-byte canonical header: RIFF, size, WAVE, "fmt " of 16 bytes, "data".
WavHeader(channels, rate, bits, data_size) ==
    <<82, 73, 70, 70>> \o LE32(36 + data_size) \o <<87, 65, 86, 69>>
    \o <<102, 109, 116, 32>> \o LE32(16) \o LE16(1) \o LE16(channels)
    \o LE32(rate) \o LE32(rate * channels * (bits \div 8))
    \o LE16(channels * (bits \div 8)) \o LE16(bits)
    \o <<100, 97, 116, 97>> \o LE32(data_size)

RECURSIVE PcmBytes(_)
PcmBytes(samples) ==
    IF samples = <<>> THEN <<>> ELSE LE16(Head(samples)) \o PcmBytes(Tail(samples))

\* Bodies of whole stereo frames (left, right, left, right, ...).
PcmBodies ==
    UNION {{[k \in 1..(2 * n) |-> 7 * k - 10], [k \in 1..(2 * n) |-> 0 - k * k]} :
              n \in 1..MaxFrames}

WavStream(body) == WavHeader(2, 16000, 16, 2 * Len(body)) \o PcmBytes(body)

\* Where one read may end and the next begin: inside the header, at its end,
\* and at every byte of the body.
CutPoints(stream) == {12, 20, 43} \cup 44..(Len(stream) - 1)

\* while (pos + 8 <= chunk.size) { chunk_size = *(uint32_t*)(chunk.data + pos + 4);
\*   (sub_chunk_size here: the local chunk_size of this loop, not the read size)
\*   if "fmt " and pos + 8 + 16 <= chunk.size: channels, rate, bits from the chunk;
\*   if "data": memmove(chunk.data, chunk.data + data_offset, remain);
\*              chunk.size = remain; wav_header_parsed_ = true;
\*   pos += 8 + chunk_size; }
RECURSIVE WalkSubChunks(_, _)
WalkSubChunks(st, pos) ==
    IF pos + 8 > Len(st.data) THEN st
    ELSE LET sub_chunk_size == U32(st.data, pos + 4)
             fmt == Memcmp(st.data, pos, <<102, 109, 116, 32>>)
                      /\ pos + 8 + 16 <= Len(st.data)
             st1 == IF fmt
                    THEN [st EXCEPT !.channels = U16(st.data, pos + 10),
                                    !.sample_rate = U32(st.data, pos + 12),
                                    !.bits_per_sample = U16(st.data, pos + 22)]
                    ELSE st
             data_offset == pos + 8
             st2 == IF Memcmp(st.data, pos, <<100, 97, 116, 97>>)
                    THEN [st1 EXCEPT !.data = SubSeq(st.data, data_offset + 1, Len(st.data)),
                                     !.parsed = TRUE]
                    ELSE st1
         IN WalkSubChunks(st2, pos + 8 + sub_chunk_size)

\* if (!wav_header_parsed_) { if (chunk.size >= 44 && "RIFF" at 0 && "WAVE" at 8)
\*   { wav_mode_ = true; walk the sub-chunks } }
\* st: [data, mode, parsed, channels, sample_rate, bits_per_sample]
DetectWav(st) ==
    IF ~st.parsed /\ Len(st.data) >= 44
         /\ Memcmp(st.data, 0, <<82, 73, 70, 70>>) /\ Memcmp(st.data, 8, <<87, 65, 86, 69>>)
    THEN WalkSubChunks([st EXCEPT !.mode = TRUE], 12)
    ELSE st

\* (int16_t)((left + right) / 2): the quotient is rounded towards zero.
TruncAvg(left, right) ==
    LET sum == left + right
    IN IF sum >= 0 THEN sum \div 2 ELSE 0 - ((0 - sum) \div 2)

\* sample_count = bytes_left / 2; if (wav_channels_ == 2) { mono_samples =
\* sample_count / 2; mono[i] = avg(pcm16[2i], pcm16[2i+1]) } else mono = pcm16[0..)
Downmix(window, channels) ==
    LET sample_count == Len(window) \div 2
        pcm16 == [i \in 1..sample_count |-> Int16(window[2 * i - 1], window[2 * i])]
    IN IF channels = 2
       THEN [i \in 1..(sample_count \div 2) |-> TruncAvg(pcm16[2 * i - 1], pcm16[2 * i])]
       ELSE pcm16

InitWav ==
    /\ Constructed(AnySession)
    /\ \E body \in PcmBodies :
         \E cuts \in SUBSET CutPoints(WavStream(body)) :
            call = [op |-> "PlayWav", pc |-> "pop", body |-> body,
                    stream |-> WavStream(body), cuts |-> cuts, pos |-> 0,
                    window |-> <<>>, id3_processed |-> FALSE, packets |-> <<>>]

\* if (bytes_left < 4096) { pop the next chunk, or break when the queue is empty
\* and the download is over; format detection; refill; metadata-tag skip }
Wav_Pop ==
    /\ call.op = "PlayWav"
    /\ call.pc = "pop"
    /\ IF call.pos = Len(call.stream)
       THEN /\ call' = [call EXCEPT !.pc = "done"]
            /\ UNCHANGED wav
       ELSE LET stop == CHOOSE c \in (call.cuts \cup {Len(call.stream)}) :
                           /\ c > call.pos
                           /\ \A d \in call.cuts : d > call.pos => c <= d
                chunk == SubSeq(call.stream, call.pos + 1, stop)
                st == DetectWav([data |-> chunk, mode |-> wav_mode_,
                                 parsed |-> wav_header_parsed_,
                                 channels |-> wav_channels_,
                                 sample_rate |-> wav_sample_rate_,
                                 bits_per_sample |-> wav_bits_per_sample_])
                copy_size == Min(Len(st.data), mp3_input_size - Len(call.window))
                filled == call.window \o SubSeq(st.data, 1, copy_size)
                tagged == ~(call.id3_processed \/ st.parsed) /\ ~st.mode
                            /\ Len(filled) >= 10
                skip == IF tagged THEN SkipId3Tag(filled, Len(filled)) ELSE 0
            IN /\ wav_mode_' = st.mode
               /\ wav_header_parsed_' = st.parsed
               /\ wav_channels_' = st.channels
               /\ wav_sample_rate_' = st.sample_rate
               /\ wav_bits_per_sample_' = st.bits_per_sample
               /\ call' = [call EXCEPT !.pos = stop,
                                       !.window = SubSeq(filled, skip + 1, Len(filled)),
                                       !.id3_processed = @ \/ st.parsed \/ tagged,
                                       !.pc = "emit"]
    /\ UNCHANGED <<shared, queue, sync, threads, ctl, sessions, dl, play,
                   env, heap, hist, display>>

\* if (wav_mode_) { if (bytes_left > 0) { down-mix; packet.sample_rate =
\* wav_sample_rate_; app.AddAudioData(packet); bytes_left = 0; } continue; }
\* otherwise the window goes to the MP3 decoder, which finds no frame in it
\* (MP3FindSyncWord < 0: bytes_left = 0) or reports an error (nothing consumed).
Wav_Emit ==
    /\ call.op = "PlayWav"
    /\ call.pc = "emit"
    /\ IF wav_mode_
       THEN call' = [call EXCEPT
                       !.packets = IF call.window # <<>>
                                   THEN Append(@, [sample_rate |-> wav_sample_rate_,
                                                   samples |-> Downmix(call.window,
                                                                       wav_channels_)])
                                   ELSE @,
                       !.window = <<>>,
                       !.pc = "pop"]
       ELSE \E r \in {"nosync", "error"} :
              call' = [call EXCEPT !.window = IF r = "nosync" THEN <<>> ELSE @,
                                   !.pc = "pop"]
    /\ UNCHANGED <<shared, queue, sync, threads, wav, ctl, sessions, dl, play,
                   env, heap, hist, display>>

NextWav == Wav_Pop \/ Wav_Emit

WavSpec == InitWav /\ [][NextWav]_vars

\* Every sample handed to AddAudioData, in order.
RECURSIVE Emitted(_)
Emitted(packets) ==
    IF packets = <<>> THEN <<>> ELSE Head(packets).samples \o Emitted(Tail(packets))

\* C19: a stream of a 44-byte canonical header (2 channels, 16 bits, 16000 Hz)
\* and a body of whole stereo frames, cut into reads anywhere, has been played
\* to its end: every packet has sample rate 16000, the mono samples are the
\* truncating averages of the left/right pairs, one per pair and in order, and
\* their number is half the number of 16-bit samples of the body.
C19_WavDownmix ==
    call.op = "PlayWav" /\ call.pc = "done" =>
        /\ \A i \in 1..Len(call.packets) : call.packets[i].sample_rate = 16000
        /\ Len(Emitted(call.packets)) * 2 = Len(call.body)
        /\ Emitted(call.packets) =
              [k \in 1..(Len(call.body) \div 2) |->
                  TruncAvg(call.body[2 * k - 1], call.body[2 * k])]

\* C20: SkipId3Tag returns 0 for fewer than 10 bytes or bytes that do not start
\* with "ID3"; otherwise 10 + (b6 mod 128)*2^21 + (b7 mod 128)*2^14
\* + (b8 mod 128)*2^7 + (b9 mod 128) for the bytes b6..b9 at offsets 6..9; size
\* bytes 0, 0, 2, 1 give 267.
C20_SkipId3Tag ==
    call.op = "SkipId3Tag" /\ call.pc = "returned" =>
        LET d == call.data
        IN /\ call.size < 10 \/ SubSeq(d, 1, 3) # <<73, 68, 51>> => call.result = 0
           /\ call.size >= 10 /\ SubSeq(d, 1, 3) = <<73, 68, 51>> =>
                 call.result = 10 + (d[7] % 128) * 2097152 + (d[8] % 128) * 16384
                                  + (d[9] % 128) * 128 + (d[10] % 128)
           /\ call.size >= 10 /\ SubSeq(d, 1, 3) = <<73, 68, 51>>
                 /\ SubSeq(d, 7, 10) = <<0, 0, 2, 1>> => call.result = 267

C20_Witness ==
    /\ call.op = "SkipId3Tag" /\ call.pc = "returned"
    /\ call.size >= 10
    /\ SubSeq(call.data, 1, 3) = <<73, 68, 51>>
    /\ SubSeq(call.data, 7, 10) = <<0, 0, 2, 1>>
    /\ call.result = 267

\* ------------------------------------------------------------------
\* Locking, cancellation, container detection, resources
\* ------------------------------------------------------------------
\* The download task of session s is at the call of ClearAudioBuffer() inside
\* a cleanup block: its next statement is the lock_guard of ClearAudioBuffer.
AtClearInCleanup(s) == dl[s].pc \in {"nf_clear", "he_clear", "to_clear"}

\* C21: no task reaches an acquisition of buffer_mutex_ while it owns it, and
\* none is blocked for ever on a lock it holds itself; the 404, HTTP-error and
\* first-byte-timeout cleanups are included.
C21_NoRelock ==
    \A s \in Sessions :
        /\ ~(AtClearInCleanup(s) /\ buffer_mutex_ = DlTask(s))
        /\ dl[s].pc # "deadlocked"

\* C22: a download task that was blocked in the wait of its push when the
\* controller cleared is_downloading_ releases the chunk it holds and does not
\* enqueue it: the step that ends its push leaves audio_buffer_ and
\* buffer_size_ as they were, also when is_downloading_ is true again by then.
C22_CancelledPushDiscards ==
    [][\A s \in Sessions :
         dl[s].cancelled /\ DlAt(s, "push") /\ dl'[s].pc # "push" =>
             /\ audio_buffer_' = audio_buffer_
             /\ buffer_size_' = buffer_size_
             /\ pushed' = pushed
             /\ dl[s].chunk.id \in heap'.freed]_vars

\* The length of the first chunk of the stream being played on its own.
FirstChunkLen ==
    CHOOSE c \in (call.cuts \cup {Len(call.stream)}) :
        \A d \in call.cuts : c <= d

\* C23: once the first chunk of a session has been handled, WAV mode is on
\* whenever that chunk held at least 12 bytes with "RIFF" at bytes 0..3 and
\* "WAVE" at bytes 8..11.
C23_WavDetectedFrom12 ==
    /\ call.op = "PlayWav"
    /\ call.pos > 0
    /\ FirstChunkLen >= 12
    /\ Memcmp(call.stream, 0, <<82, 73, 70, 70>>)
    /\ Memcmp(call.stream, 8, <<87, 65, 86, 69>>)
    => wav_mode_

\* C24: in every session with a song name, a play task that has gone through an
\* idle loop iteration, or has forwarded a packet, has set the now-playing
\* label exactly once; the second and later sessions are included.
C24_LabelOncePerSession ==
    \A s \in Sessions :
        /\ play[s].labels <= 1
        /\ current_song_name_ # "" /\ (play[s].st = "idle" \/ play[s].emitted > 0)
              => play[s].labels = 1

\* ------------------------------------------------------------------
\* The decode window
\* ------------------------------------------------------------------
\* C25: in every state of a play task the count of unconsumed bytes of the window
\* is between 0 and its capacity and the read position lies inside the window,
\* also after the metadata-tag skip, for every tag size.
C25_WindowInBounds ==
    \A s \in Sessions :
        /\ play[s].bytes_left >= 0
        /\ play[s].bytes_left <= mp3_input_size
        /\ play[s].read_ptr >= 0
        /\ play[s].read_ptr + play[s].bytes_left <= mp3_input_size

HeldBy(task) == IF task.chunk.id = 0 THEN {} ELSE {task.chunk.id}
Resident == {audio_buffer_[i].id : i \in 1 .. Len(audio_buffer_)}
Popped == {popped[i] : i \in 1 .. Len(popped)}
Pushed == {pushed[i] : i \in 1 .. Len(pushed)}
\* The chunks a download task released itself.
Discarded == heap.freed \ Pushed

\* C27: a chunk is released at most once and is not used after its release: a
\* chunk in the queue or in the hands of a task has not been released and has
\* one holder, and no chunk is released both by a clear and by the play task
\* that popped it, or by the download task and by one of those.
C27_ReleasedOnce ==
    /\ Resident \cap heap.freed = {}
    /\ \A i, j \in 1 .. Len(audio_buffer_) :
           audio_buffer_[i].id = audio_buffer_[j].id => i = j
    /\ \A s \in Sessions :
           /\ HeldBy(dl[s]) \cap (heap.freed \cup Resident) = {}
           /\ HeldBy(play[s]) \cap (heap.freed \cup Resident) = {}
           /\ \A o \in Sessions :
                  /\ HeldBy(dl[s]) \cap HeldBy(play[o]) = {}
                  /\ o # s => HeldBy(dl[s]) \cap HeldBy(dl[o]) = {}
                  /\ o # s => HeldBy(play[s]) \cap HeldBy(play[o]) = {}
    /\ cleared \cap Popped = {}
    /\ Discarded \cap (cleared \cup Popped) = {}

\* A run with a second session in which one chunk was released by the play task
\* that popped it, one by the clear that found it in the queue, and one by the
\* download task that could not push it.
C27_Witness ==
    /\ sessions = 2
    /\ Popped \cap heap.freed # {}
    /\ cleared # {}
    /\ Discarded # {}

\* ------------------------------------------------------------------
\* The launch of a session and the end of its stream
\* ------------------------------------------------------------------
\* The download task has gone past the is_playing_ = false of one of its
\* cleanups.
ClearedPlaying(s) ==
    dl[s].pc \in {"nf_notify", "nf_clear", "nf_sound", "nf_listen",
                  "he_notify", "he_clear", "to_notify", "to_clear", "deadlocked"}

\* C28: while a start operation is launching a session, the download task of
\* that session does not read is_playing_ as false, and the controller does not
\* set back to true the is_playing_ which that download task has cleared.
C28_FlagsSetBeforeTasksRun ==
    [][ /\ \A s \in Sessions :
              /\ s = sessions /\ ctl.pc # "idle"
              /\ DlAt(s, "loop_playing") /\ dl'[s].pc # "loop_playing"
              => is_playing_
        /\ ctl.pc # "idle" /\ ~is_playing_ /\ is_playing_'
              => ~ClearedPlaying(sessions) ]_vars

\* C29: in MP3 mode, when the play task ends because the queue is empty and the
\* download has stopped while is_playing_ is still true, the decode window holds
\* no bytes that were popped and neither decoded, nor dropped by the sync-word
\* search, nor skipped as a metadata tag.
C29_NothingLeftAtEndOfStream ==
    [][ \A s \in Sessions :
          /\ PlayAt(s, "pop") /\ play'[s].pc = "exit"
          /\ ~wav_mode_ /\ is_playing_
          => play[s].bytes_left = 0 /\ play[s].window = <<>> ]_vars

====
